---- MODULE Spec2Model ----
(***************************************************************************)
(* NightDriverRemote (src/src/main.cpp): an ESP32 remote control that      *)
(* steps through the effects of a NightDriverStrip over ESP-NOW.           *)
(*                                                                         *)
(* The model has the controller object (currentEffect, button, display),   *)
(* the ESP-NOW link layer it calls (send queue, delivery-status callback), *)
(* a receiver that applies delivered messages, and the Message codec.      *)
(***************************************************************************)
EXTENDS Integers, Sequences, FiniteSets, TLC

\* ------------------------------------------------------------------ bounds
\* Press edges the button delivers in one run (a full wrap of the catalog).
MaxPresses == 7
\* Send attempts after which the surrounding application stops calling the
\* public setEffect / setBrightness.
MaxSends == 3
\* Messages the link layer holds (queued, or sent with the callback still
\* to run) before esp_now_send reports no memory.
MaxInflight == 2

\* --------------------------------------------------------------- constants
EFFECT_NAMES ==
    << "Solid White", "Solid Red", "Solid Amber", "Fire Effect",
       "Rainbow Fill", "Color Meteors", "Off" >>

RECEIVER_MAC == << 255, 255, 255, 255, 255, 255 >>

NextEffect == 1
PrevEffect == 2
SetEffect == 3
SetBrightness == 4
INVALID == 255

ESPNowCommand == { NextEffect, PrevEffect, SetEffect, SetBrightness, INVALID }

\* uint8_t wraps at 2^8.  uint32_t values are ordinary naturals here: the
\* model's arguments stay below 2^31, so no uint32_t operation wraps.
UINT8 == 2^8

ESP_OK == "ESP_OK"
ESP_ERR_ESPNOW_NOT_INIT == "ESP_ERR_ESPNOW_NOT_INIT"
ESP_ERR_ESPNOW_NOT_FOUND == "ESP_ERR_ESPNOW_NOT_FOUND"
ESP_ERR_ESPNOW_NO_MEM == "ESP_ERR_ESPNOW_NO_MEM"

ESP_NOW_SEND_SUCCESS == "ESP_NOW_SEND_SUCCESS"
ESP_NOW_SEND_FAIL == "ESP_NOW_SEND_FAIL"
SendStatus == { ESP_NOW_SEND_SUCCESS, ESP_NOW_SEND_FAIL }

\* ------------------------------------------------------------------- state
VARIABLES
    pc,             \* "boot" before setup() has run, "running" in loop()
    currentEffect,  \* NightDriverRemote::currentEffect
    buttonDown,     \* debounced state held by Bounce2::Button
    display,        \* what the OLED shows
    renderCount,    \* number of updateDisplay() calls
    serial,         \* last line printed on Serial
    ret,            \* return value of the last setEffect / setBrightness
    stages,         \* initialization stages attempted, each with its result
    initOk,         \* return value of initialize()
    wifiMode,       \* WiFi.mode
    espnowInit,     \* esp_now_init() has succeeded
    cbRegistered,   \* esp_now_register_send_cb() has been called
    peerAdded,      \* esp_now_add_peer() has succeeded
    sendCount,      \* number of esp_now_send() calls
    firstSend,      \* the first esp_now_send() call
    lastSend,       \* the most recent esp_now_send() call
    inflight,       \* messages the link layer accepted and has not sent yet
    cbQueue,        \* delivery statuses whose callback has not run yet
    rx,             \* the receiver
    presses,        \* press edges processed by update()
    lastOp,         \* the operation that ran last, with its argument
    codecIn,        \* codec: the (command, argument) given to Message
    codecOut,       \* codec: the bytes data() yields
    codecBack       \* codec: what a receiver decodes from those bytes

ctrlVars == << currentEffect, buttonDown, display, renderCount, ret, presses >>
initVars == << stages, initOk, wifiMode, espnowInit, cbRegistered, peerAdded >>
sendVars == << sendCount, firstSend, lastSend, inflight >>
linkVars == << cbQueue, rx >>
codecVars == << codecIn, codecOut, codecBack >>
vars == << pc, ctrlVars, initVars, sendVars, linkVars, serial, lastOp, codecVars >>

\* ------------------------------------------------------------ Message codec
sizeofMessage == 1 + 1 + 4

Message(cmd, argument) ==
    [ size |-> sizeofMessage, command |-> cmd, arg1 |-> argument ]

Byte(n, k) == (n \div (256 ^ k)) % 256

\* Variant: arg1 is laid out most significant byte first.
dataBigEndian(msg) ==
    << msg.size % UINT8, msg.command,
       Byte(msg.arg1, 3), Byte(msg.arg1, 2), Byte(msg.arg1, 1), Byte(msg.arg1, 0) >>

\* Variant: the command is laid out before the size.
dataCommandFirst(msg) ==
    << msg.command, msg.size % UINT8,
       Byte(msg.arg1, 0), Byte(msg.arg1, 1), Byte(msg.arg1, 2), Byte(msg.arg1, 3) >>

data(msg) ==
    << msg.size % UINT8, msg.command,
       Byte(msg.arg1, 0), Byte(msg.arg1, 1), Byte(msg.arg1, 2), Byte(msg.arg1, 3) >>

byte_size(msg) == sizeofMessage

\* ------------------------------------------------------------------ display
BlankDisplay == [ index |-> 0, total |-> 0, name |-> "", progress |-> 0 ]

EffectName(i) ==
    IF i < Len(EFFECT_NAMES) THEN EFFECT_NAMES[i + 1] ELSE "<out of range>"

Render(effect) ==
    LET progressWidth == (effect * 128) \div (Len(EFFECT_NAMES) - 1)
    IN  [ index    |-> effect + 1,
          total    |-> Len(EFFECT_NAMES),
          name     |-> EffectName(effect),
          progress |-> (progressWidth * 100) \div 128 ]

updateDisplay ==
    /\ display' = Render(currentEffect')
    /\ renderCount' = renderCount + 1

\* --------------------------------------------------------------- link layer
NoSend == [ bytes |-> << >>, result |-> "NONE", seq |-> 0, op |-> "none", from |-> 0 ]

linkStatus(accept) ==
    IF ~espnowInit' THEN ESP_ERR_ESPNOW_NOT_INIT
    ELSE IF ~peerAdded' THEN ESP_ERR_ESPNOW_NOT_FOUND
    ELSE IF Len(inflight) + Len(cbQueue) >= MaxInflight \/ ~accept THEN ESP_ERR_ESPNOW_NO_MEM
    ELSE ESP_OK

esp_now_send(mac, bytes, len, accept, op) ==
    LET entry == [ bytes  |-> SubSeq(bytes, 1, len),
                   result |-> linkStatus(accept),
                   seq    |-> sendCount + 1,
                   op     |-> op,
                   from   |-> currentEffect' ]
    IN  /\ sendCount' = sendCount + 1
        /\ lastSend' = entry
        /\ firstSend' = IF sendCount = 0 THEN entry ELSE firstSend
        /\ inflight' = IF entry.result = ESP_OK
                       THEN Append(inflight, [ bytes |-> entry.bytes, seq |-> entry.seq, from |-> entry.from ])
                       ELSE inflight

\* --------------------------------------------------------------- controller
\* Variant: the bounds check lets the index one past the catalog through.
validEffectOffByOne(effect) == effect <= Len(EFFECT_NAMES)

validEffect(effect) == effect < Len(EFFECT_NAMES)

\* Variant: the effect change is sent in the relative NextEffect form.
setEffectRelative(effect, accept, op) ==
    IF ~validEffect(effect)
    THEN /\ ret' = FALSE
         /\ UNCHANGED << sendVars, serial >>
    ELSE LET msg == Message(NextEffect, 0)
         IN  /\ esp_now_send(RECEIVER_MAC, data(msg), byte_size(msg), accept, op)
             /\ IF lastSend'.result = ESP_OK
                THEN /\ serial' = << "Set effect to: ", EffectName(effect) >>
                     /\ ret' = TRUE
                ELSE /\ serial' = << "Error sending message" >>
                     /\ ret' = FALSE

setEffect(effect, accept, op) ==
    IF ~validEffect(effect)
    THEN /\ ret' = FALSE
         /\ UNCHANGED << sendVars, serial >>
    ELSE LET msg == Message(SetEffect, effect)
         IN  /\ esp_now_send(RECEIVER_MAC, data(msg), byte_size(msg), accept, op)
             /\ IF lastSend'.result = ESP_OK
                THEN /\ serial' = << "Set effect to: ", EffectName(effect) >>
                     /\ ret' = TRUE
                ELSE /\ serial' = << "Error sending message" >>
                     /\ ret' = FALSE

\* Variant: the brightness is sent under the SetEffect command.
setBrightnessAsEffect(brightness, accept, op) ==
    LET msg == Message(SetEffect, brightness % UINT8)
    IN  /\ esp_now_send(RECEIVER_MAC, data(msg), byte_size(msg), accept, op)
        /\ IF lastSend'.result = ESP_OK
           THEN /\ serial' = << "Set brightness to: ", ToString(brightness % UINT8) >>
                /\ ret' = TRUE
           ELSE /\ serial' = << "Error sending message" >>
                /\ ret' = FALSE

setBrightness(brightness, accept, op) ==
    LET msg == Message(SetBrightness, brightness % UINT8)
    IN  /\ esp_now_send(RECEIVER_MAC, data(msg), byte_size(msg), accept, op)
        /\ IF lastSend'.result = ESP_OK
           THEN /\ serial' = << "Set brightness to: ", ToString(brightness % UINT8) >>
                /\ ret' = TRUE
           ELSE /\ serial' = << "Error sending message" >>
                /\ ret' = FALSE

\* Variant: the wrap is taken one entry early.
NextIndexOffByOne(cur) == (cur + 1) % (Len(EFFECT_NAMES) - 1)

\* Variant: the index is advanced without the wrap.
NextIndexNoWrap(cur) == cur + 1

NextIndex(cur) == (cur + 1) % Len(EFFECT_NAMES)

\* Variant: the level of the button is taken for its press edge.
pressedWhileHeld(reading) == reading

pressed(reading) == reading /\ ~buttonDown

\* Variant: the display is re-rendered only when the send was accepted.
updateRendersOnSuccessOnly(reading, accept) ==
    /\ buttonDown' = reading
    /\ IF pressed(reading)
       THEN /\ currentEffect' = NextIndex(currentEffect)
            /\ setEffect(currentEffect', accept, "update")
            /\ IF ret' THEN updateDisplay ELSE UNCHANGED << display, renderCount >>
            /\ presses' = presses + 1
       ELSE /\ UNCHANGED << currentEffect, display, renderCount, ret, presses >>
            /\ UNCHANGED << sendVars, serial >>

\* Variant: the command is sent before currentEffect is advanced.
updateSendsPreviousIndex(reading, accept) ==
    /\ buttonDown' = reading
    /\ IF pressed(reading)
       THEN /\ currentEffect' = NextIndex(currentEffect)
            /\ setEffect(currentEffect, accept, "update")
            /\ updateDisplay
            /\ presses' = presses + 1
       ELSE /\ UNCHANGED << currentEffect, display, renderCount, ret, presses >>
            /\ UNCHANGED << sendVars, serial >>

update(reading, accept) ==
    /\ buttonDown' = reading
    /\ IF pressed(reading)
       THEN /\ currentEffect' = NextIndex(currentEffect)
            /\ setEffect(currentEffect', accept, "update")
            /\ updateDisplay
            /\ presses' = presses + 1
       ELSE /\ UNCHANGED << currentEffect, display, renderCount, ret, presses >>
            /\ UNCHANGED << sendVars, serial >>

\* ----------------------------------------------------------- initialization
StageOrder == << "display", "button", "wifi", "espnow", "peer" >>

stageResult(stage, espOk, peerOk) ==
    CASE stage = "espnow" -> espOk
      [] stage = "peer"   -> peerOk
      [] OTHER            -> TRUE

RECURSIVE andThen(_, _, _)
andThen(order, espOk, peerOk) ==
    IF order = << >> THEN << >>
    ELSE LET ok == stageResult(Head(order), espOk, peerOk)
         IN  << [ stage |-> Head(order), ok |-> ok ] >>
             \o (IF ok THEN andThen(Tail(order), espOk, peerOk) ELSE << >>)

\* Variant: every stage runs, whatever the earlier ones returned.
initializeEager(espOk, peerOk) ==
    [ i \in 1..Len(StageOrder) |->
        [ stage |-> StageOrder[i], ok |-> stageResult(StageOrder[i], espOk, peerOk) ] ]

initialize(espOk, peerOk) == andThen(StageOrder, espOk, peerOk)

\* The value of an && chain is the value of the last operand evaluated.
initializeResult(trace) == trace[Len(trace)].ok

attempted(trace, stage) == \E i \in 1..Len(trace) : trace[i].stage = stage
succeeded(trace, stage) == \E i \in 1..Len(trace) : trace[i].stage = stage /\ trace[i].ok
allOk(trace) == \A i \in 1..Len(trace) : trace[i].ok

\* Variant: setup() starts with the last effect of the catalog.
StartupEffectLast == Len(EFFECT_NAMES) - 1

StartupEffect == 0

\* ----------------------------------------------------------------- receiver
decodeArg(bytes) == bytes[3] + 256 * bytes[4] + 65536 * bytes[5] + 16777216 * bytes[6]

decode(bytes) == [ size |-> bytes[1], command |-> bytes[2], arg1 |-> decodeArg(bytes) ]

receive(r, m) ==
    LET msg == decode(m.bytes)
        n   == Len(EFFECT_NAMES)
    IN  IF Len(m.bytes) # sizeofMessage \/ msg.size # sizeofMessage THEN r
        ELSE CASE msg.command = SetEffect /\ msg.arg1 < n ->
                     [ r EXCEPT !.effect = msg.arg1, !.seq = m.seq, !.from = m.from ]
               [] msg.command = NextEffect ->
                     [ r EXCEPT !.effect = (r.effect + 1) % n, !.seq = m.seq, !.from = m.from ]
               [] msg.command = PrevEffect ->
                     [ r EXCEPT !.effect = (r.effect + n - 1) % n, !.seq = m.seq, !.from = m.from ]
               [] msg.command = SetBrightness ->
                     [ r EXCEPT !.brightness = msg.arg1 % UINT8 ]
               [] OTHER -> r

\* --------------------------------------------------------------------- Init
CodecArgs ==
    (0..8) \cup { 255, 256, 257, 65535, 65536, 16777215, 16777216,
                  305419896, 2147483647 }

NoCodecIn == [ command |-> SetEffect, arg1 |-> 0 ]

NoDecoded == [ size |-> 0, command |-> 0, arg1 |-> 0 ]

InitProgram ==
    /\ pc = "boot"
    /\ currentEffect = 0
    /\ buttonDown = FALSE
    /\ display = BlankDisplay
    /\ renderCount = 0
    /\ serial = << >>
    /\ ret = FALSE
    /\ stages = << >>
    /\ initOk = FALSE
    /\ wifiMode = "OFF"
    /\ espnowInit = FALSE
    /\ cbRegistered = FALSE
    /\ peerAdded = FALSE
    /\ sendCount = 0
    /\ firstSend = NoSend
    /\ lastSend = NoSend
    /\ inflight = << >>
    /\ cbQueue = << >>
    /\ rx = [ effect |-> 0, brightness |-> 255, seq |-> 0, from |-> 0, lost |-> FALSE ]
    /\ presses = 0
    /\ lastOp = [ op |-> "none", arg |-> 0 ]

Init ==
    /\ InitProgram
    /\ codecIn = NoCodecIn
    /\ codecOut = << >>
    /\ codecBack = NoDecoded

\* ------------------------------------------------------------------ actions
\* setup(): initialize(), then setEffect(0) whatever initialize() returned.
Setup(espOk, peerOk, accept) ==
    /\ pc = "boot"
    /\ pc' = "running"
    /\ currentEffect' = currentEffect
    /\ stages' = initialize(espOk, peerOk)
    /\ initOk' = initializeResult(stages')
    /\ wifiMode' = IF attempted(stages', "wifi") THEN "WIFI_STA" ELSE wifiMode
    /\ espnowInit' = succeeded(stages', "espnow")
    /\ cbRegistered' = espnowInit'
    /\ peerAdded' = (espnowInit' /\ succeeded(stages', "peer"))
    /\ IF attempted(stages', "display")
       THEN updateDisplay
       ELSE UNCHANGED << display, renderCount >>
    /\ setEffect(StartupEffect, accept, "setup")
    /\ lastOp' = [ op |-> "setup", arg |-> StartupEffect ]
    /\ UNCHANGED << buttonDown, presses, linkVars, codecVars >>

\* loop(): one update() tick; reading is the debounced level of the button.
Loop(reading, accept) ==
    /\ pc = "running"
    /\ pressed(reading) => presses < MaxPresses
    /\ UNCHANGED << pc, initVars >>
    /\ update(reading, accept)
    /\ lastOp' = [ op |-> "update", arg |-> IF pressed(reading) THEN 1 ELSE 0 ]
    /\ UNCHANGED << linkVars, codecVars >>

\* The link layer sends the oldest queued message; it reaches the receiver
\* or is lost, and a delivery status is queued for the callback.
LinkTransmit(delivered, status) ==
    /\ pc = "running"
    /\ inflight # << >>
    /\ inflight' = Tail(inflight)
    /\ rx' = IF delivered THEN receive(rx, Head(inflight)) ELSE [ rx EXCEPT !.lost = TRUE ]
    /\ cbQueue' = IF cbRegistered THEN Append(cbQueue, status) ELSE cbQueue
    /\ lastOp' = [ op |-> "transmit", arg |-> 0 ]
    /\ UNCHANGED << pc, ctrlVars, initVars, sendCount, firstSend, lastSend, serial, codecVars >>

\* Variant: a reported failure steps currentEffect back.
onSendCallbackRollsBack(status) ==
    /\ serial' = << "Send status: ", IF status = ESP_NOW_SEND_SUCCESS THEN "Success" ELSE "Fail" >>
    /\ currentEffect' = IF status = ESP_NOW_SEND_SUCCESS THEN currentEffect
                        ELSE (currentEffect + Len(EFFECT_NAMES) - 1) % Len(EFFECT_NAMES)
    /\ UNCHANGED << buttonDown, display, renderCount, ret, presses, sendVars >>

\* NightDriverRemote::onSendCallback, run by the link layer's task.
onSendCallback(status) ==
    /\ serial' = << "Send status: ", IF status = ESP_NOW_SEND_SUCCESS THEN "Success" ELSE "Fail" >>
    /\ UNCHANGED << ctrlVars, sendVars >>

SendCallback ==
    /\ pc = "running"
    /\ cbQueue # << >>
    /\ cbQueue' = Tail(cbQueue)
    /\ onSendCallback(Head(cbQueue))
    /\ lastOp' = [ op |-> "onSendCallback", arg |-> 0 ]
    /\ UNCHANGED << pc, initVars, rx, codecVars >>

Next ==
    \/ \E espOk \in BOOLEAN, peerOk \in BOOLEAN, accept \in BOOLEAN : Setup(espOk, peerOk, accept)
    \/ \E reading \in BOOLEAN, accept \in BOOLEAN : Loop(reading, accept)
    \/ \E delivered \in BOOLEAN, status \in SendStatus : LinkTransmit(delivered, status)
    \/ SendCallback

Spec == Init /\ [][Next]_vars

\* ------------------------------------------- the public interface, called
\* The surrounding application calls the public setEffect / setBrightness
\* of the global remote object once setup() has returned.
EffectArgs == { 0, Len(EFFECT_NAMES) - 1, Len(EFFECT_NAMES), 2147483647 }
BrightnessArgs == { 0, 255 }

CallSetEffect(effect, accept) ==
    /\ pc = "running"
    /\ sendCount < MaxSends
    /\ UNCHANGED << pc, initVars, currentEffect >>
    /\ setEffect(effect, accept, "setEffect")
    /\ lastOp' = [ op |-> "setEffect", arg |-> effect ]
    /\ UNCHANGED << buttonDown, display, renderCount, presses, linkVars, codecVars >>

CallSetBrightness(brightness, accept) ==
    /\ pc = "running"
    /\ sendCount < MaxSends
    /\ UNCHANGED << pc, initVars, currentEffect >>
    /\ setBrightness(brightness, accept, "setBrightness")
    /\ lastOp' = [ op |-> "setBrightness", arg |-> brightness ]
    /\ UNCHANGED << buttonDown, display, renderCount, presses, linkVars, codecVars >>

NextApi ==
    \/ Next
    \/ \E effect \in EffectArgs, accept \in BOOLEAN : CallSetEffect(effect, accept)
    \/ \E brightness \in BrightnessArgs, accept \in BOOLEAN : CallSetBrightness(brightness, accept)

SpecApi == Init /\ [][NextApi]_vars

\* ------------------------------------------------------ the codec, alone
\* Message construction and data() applied to every command value and a
\* set of arguments.
InitCodec ==
    /\ InitProgram
    /\ codecIn \in [ command : ESPNowCommand, arg1 : CodecArgs ]
    /\ codecOut = << >>
    /\ codecBack = NoDecoded

Encode ==
    /\ codecOut = << >>
    /\ codecOut' = LET msg == Message(codecIn.command, codecIn.arg1)
                   IN  SubSeq(data(msg), 1, byte_size(msg))
    /\ lastOp' = [ op |-> "encode", arg |-> codecIn.arg1 ]
    /\ UNCHANGED << pc, ctrlVars, initVars, sendVars, linkVars, serial, codecIn, codecBack >>

\* A receiver reads the bytes back by the wire layout.
Decode ==
    /\ codecOut # << >>
    /\ codecBack = NoDecoded
    /\ codecBack' = decode(codecOut)
    /\ lastOp' = [ op |-> "decode", arg |-> codecIn.arg1 ]
    /\ UNCHANGED << pc, ctrlVars, initVars, sendVars, linkVars, serial, codecIn, codecOut >>

NextCodec == Encode \/ Decode

SpecCodec == InitCodec /\ [][NextCodec]_vars

\* =================================================================== claims

C2_NoSendUnlessInitialized == sendCount > 0 => initOk

\* C3: the stages run in the order display, button, wifi, espnow, peer; a
\* stage is attempted only if every earlier one succeeded; when ESP-NOW init
\* fails, peer registration is not attempted and initialize() returns false;
\* initialize() returns true only if all five stages succeeded.
C3_InitShortCircuits ==
    pc = "running" =>
        /\ Len(stages) \in 1..Len(StageOrder)
        /\ \A i \in 1..Len(stages) : stages[i].stage = StageOrder[i]
        /\ \A i \in 1..(Len(stages) - 1) : stages[i].ok
        /\ ~succeeded(stages, "espnow") => (~attempted(stages, "peer") /\ ~initOk)
        /\ initOk => (Len(stages) = Len(StageOrder) /\ allOk(stages))

C3_EspNowInitFailed ==
    /\ pc = "running"
    /\ attempted(stages, "espnow")
    /\ ~succeeded(stages, "espnow")
    /\ ~initOk

\* C4: setEffect(index) with index >= catalogLength returns false, makes no
\* esp_now_send call and leaves currentEffect unchanged.
C4_InvalidIndexRejected ==
    [][ (lastOp'.op = "setEffect" /\ lastOp'.arg >= Len(EFFECT_NAMES))
        => /\ ret' = FALSE
           /\ UNCHANGED << sendCount, firstSend, lastSend, inflight >>
           /\ currentEffect' = currentEffect ]_vars

C4_InvalidIndexCalled ==
    /\ lastOp.op = "setEffect"
    /\ lastOp.arg >= Len(EFFECT_NAMES)
    /\ ret = FALSE
    /\ sendCount >= 1

\* C5, as claimed: when the link layer rejects the send of an effect change,
\* the effect-set call returns false and the display is not updated, also
\* when update() made the call.
C5_RejectedSendNoDisplayUpdate ==
    [][ ( /\ pc = "running"
          /\ sendCount' = sendCount + 1
          /\ lastSend'.op \in { "update", "setEffect" }
          /\ lastSend'.result # ESP_OK )
        => /\ ret' = FALSE
           /\ UNCHANGED << display, renderCount >> ]_vars

\* C5, amended: when the link layer rejects the send of an effect change,
\* setEffect returns false and itself leaves the display alone; update()
\* still re-renders the display once, for the new currentEffect.
C5_RejectedSendFailsDisplayFollowsEffect ==
    [][ ( /\ pc = "running"
          /\ sendCount' = sendCount + 1
          /\ lastSend'.op \in { "update", "setEffect" }
          /\ lastSend'.result # ESP_OK )
        => /\ ret' = FALSE
           /\ IF lastSend'.op = "update"
              THEN /\ renderCount' = renderCount + 1
                   /\ display' = Render(currentEffect')
                   /\ display' # display
              ELSE UNCHANGED << display, renderCount >> ]_vars

C5_PressSendRejected ==
    /\ lastOp = [ op |-> "update", arg |-> 1 ]
    /\ lastSend.op = "update"
    /\ lastSend.seq = sendCount
    /\ lastSend.result # ESP_OK
    /\ ret = FALSE
    /\ display = Render(currentEffect)

\* C6: a step of the delivery-status callback, with either status, changes
\* nothing of the controller: not currentEffect, no send, no display.
C6_CallbackOnlyLogs ==
    [][ Len(cbQueue') < Len(cbQueue)
        => UNCHANGED << ctrlVars, sendVars, initVars, rx >> ]_vars

C6_CallbackReportedFailure ==
    /\ lastOp.op = "onSendCallback"
    /\ serial = << "Send status: ", "Fail" >>
    /\ currentEffect # 0

\* C7: once a message has been delivered, the receiver shows the index that
\* currentEffect held when that message was sent; when the most recent send
\* is the one delivered last, the receiver shows currentEffect, however many
\* earlier messages were lost.
C7_ReceiverShowsLastDelivered ==
    rx.seq # 0 =>
        /\ rx.effect = rx.from
        /\ rx.seq = sendCount => rx.effect = currentEffect

C7_DeliveredAfterLoss ==
    /\ rx.lost
    /\ rx.seq = sendCount
    /\ presses >= 2
    /\ rx.effect = currentEffect

\* C8: before setup() currentEffect is 0 and nothing has been sent; the
\* first send is setup()'s SetEffect with arg1 = 0, made before any press
\* edge is processed.
C8_FirstSendIsSetEffectZero ==
    /\ pc = "boot" => (currentEffect = 0 /\ sendCount = 0 /\ presses = 0)
    /\ pc = "running" =>
          /\ sendCount >= 1
          /\ firstSend.seq = 1
          /\ firstSend.op = "setup"
          /\ firstSend.from = 0
          /\ firstSend.bytes = << sizeofMessage, SetEffect, 0, 0, 0, 0 >>

C8_StartupSendAccepted ==
    /\ pc = "running"
    /\ presses = 0
    /\ sendCount = 1
    /\ lastSend = firstSend
    /\ firstSend.result = ESP_OK

\* C9: every message handed to the link layer has command SetEffect or
\* SetBrightness, and an effect change always has SetEffect.
C9_OnlySetEffectOrSetBrightness ==
    /\ sendCount > 0 =>
          /\ lastSend.bytes[2] \in { SetEffect, SetBrightness }
          /\ lastSend.op \in { "setup", "update", "setEffect" } => lastSend.bytes[2] = SetEffect
    /\ \A i \in 1..Len(inflight) : inflight[i].bytes[2] \in { SetEffect, SetBrightness }

C9_BothCommandsQueued ==
    /\ Len(inflight) = 2
    /\ inflight[1].bytes[2] = SetEffect
    /\ inflight[2].bytes[2] = SetBrightness
    /\ lastSend.op = "setBrightness"

\* C10: no byte sequence the encoder produces has INVALID (255) as its
\* command field.
C10_InvalidNeverEncoded == codecOut # << >> => codecOut[2] # INVALID

\* C11: for every valid command and argument the encoded message is exactly
\* 6 bytes: byte 0 is the size, 6; byte 1 is the command value; bytes 2..5
\* are arg1, least significant byte first; encode(SetEffect, 3) is
\* [6, 3, 3, 0, 0, 0].
C11_EncodedLayout ==
    (codecOut # << >> /\ codecIn.command # INVALID) =>
        /\ Len(codecOut) = 6
        /\ codecOut[1] = 6
        /\ codecOut[2] = codecIn.command
        /\ \A i \in 3..6 : codecOut[i] \in 0..255
        /\ codecOut[3] + 256 * codecOut[4] + 65536 * codecOut[5] + 16777216 * codecOut[6]
              = codecIn.arg1
        /\ codecIn = [ command |-> SetEffect, arg1 |-> 3 ] => codecOut = << 6, 3, 3, 0, 0, 0 >>

C11_SetEffectThreeEncoded ==
    /\ codecIn = [ command |-> SetEffect, arg1 |-> 3 ]
    /\ codecOut = << 6, 3, 3, 0, 0, 0 >>

\* C12: for every index below the catalog length, the bytes of
\* (SetEffect, index) decode to the same command and the same index.
C12_SetEffectRoundTrip ==
    ( /\ codecBack # NoDecoded
      /\ codecIn.command = SetEffect
      /\ codecIn.arg1 < Len(EFFECT_NAMES) )
    => /\ codecBack.command = SetEffect
       /\ codecBack.arg1 = codecIn.arg1
       /\ codecBack.size = Len(codecOut)

C12_LastIndexDecoded ==
    /\ codecIn = [ command |-> SetEffect, arg1 |-> Len(EFFECT_NAMES) - 1 ]
    /\ codecBack.arg1 = Len(EFFECT_NAMES) - 1
    /\ codecBack.command = SetEffect

\* C13: setBrightness(level) makes exactly one esp_now_send call, carrying
\* SetBrightness with arg1 = level, returns true exactly when the link layer
\* accepted it, and leaves currentEffect and the display unchanged.
C13_BrightnessRequest ==
    [][ lastOp'.op = "setBrightness"
        => /\ sendCount' = sendCount + 1
           /\ lastSend'.seq = sendCount'
           /\ lastSend'.bytes = << 6, SetBrightness, lastOp'.arg, 0, 0, 0 >>
           /\ ret' <=> (lastSend'.result = ESP_OK)
           /\ Len(inflight') = Len(inflight) + (IF ret' THEN 1 ELSE 0)
           /\ UNCHANGED << currentEffect, display, renderCount, presses >> ]_vars

C13_BrightnessAccepted ==
    /\ lastOp = [ op |-> "setBrightness", arg |-> 255 ]
    /\ ret = TRUE
    /\ lastSend.result = ESP_OK
    /\ lastSend.bytes = << 6, 4, 255, 0, 0, 0 >>
    /\ currentEffect # 0

\* C14: a tick of update() that sees a press edge makes exactly one send,
\* carrying the newly advanced index, also right after a rejected send; a
\* tick without a press edge makes no send and changes neither
\* currentEffect nor the display.
C14_OneSendPerPressEdge ==
    [][ lastOp'.op = "update"
        => IF ~buttonDown /\ buttonDown'
           THEN /\ sendCount' = sendCount + 1
                /\ lastSend'.seq = sendCount'
                /\ lastSend'.op = "update"
                /\ currentEffect' = (currentEffect + 1) % Len(EFFECT_NAMES)
                /\ lastSend'.bytes = << 6, SetEffect, currentEffect', 0, 0, 0 >>
           ELSE UNCHANGED << sendCount, firstSend, lastSend, inflight,
                             currentEffect, display, renderCount >> ]_vars

\* The second send was rejected (it was neither delivered, nor lost, nor is
\* it queued), and the press after it sent the index then current.
C14_PressAfterRejectedSend ==
    /\ lastOp = [ op |-> "update", arg |-> 1 ]
    /\ sendCount = 3
    /\ lastSend.result = ESP_OK
    /\ Len(inflight) = 1
    /\ inflight[1].seq = 3
    /\ rx.seq = 1
    /\ ~rx.lost
    /\ currentEffect = 2
    /\ lastSend.bytes = << 6, 3, 2, 0, 0, 0 >>

\* C15: in every reachable state 0 <= currentEffect < catalogLength, and
\* every SetEffect message handed to the link layer carries an arg1 in that
\* range.
C15_IndexInRange ==
    /\ currentEffect \in 0..(Len(EFFECT_NAMES) - 1)
    /\ (sendCount > 0 /\ lastSend.bytes[2] = SetEffect)
          => decodeArg(lastSend.bytes) \in 0..(Len(EFFECT_NAMES) - 1)
    /\ \A i \in 1..Len(inflight) :
          inflight[i].bytes[2] = SetEffect
            => decodeArg(inflight[i].bytes) \in 0..(Len(EFFECT_NAMES) - 1)

C15_LastIndexAfterBrightness ==
    /\ currentEffect = Len(EFFECT_NAMES) - 1
    /\ lastSend.bytes = << 6, 3, 6, 0, 0, 0 >>
    /\ rx.brightness = 0
    /\ serial = << "Send status: ", "Fail" >>

\* C16: once setup() has made the startup send, the most recent send
\* attempt is a SetEffect whose index equals currentEffect.
C16_LastSendCarriesCurrentEffect ==
    pc = "running" =>
        /\ sendCount >= 1
        /\ lastSend.seq = sendCount
        /\ lastSend.bytes[2] = SetEffect
        /\ decodeArg(lastSend.bytes) = currentEffect

C16_AdvancedAndSent ==
    /\ pc = "running"
    /\ currentEffect = 4
    /\ lastSend.op = "update"
    /\ lastSend.bytes = << 6, 3, 4, 0, 0, 0 >>

\* C17: from setup() on, the display shows the index and the name of
\* currentEffect, whether or not the send of the change was accepted.
C17_DisplayShowsCurrentEffect ==
    pc = "running" =>
        /\ display.index = currentEffect + 1
        /\ display.total = Len(EFFECT_NAMES)
        /\ display.name = EFFECT_NAMES[currentEffect + 1]
        /\ renderCount = presses + 1

C17_RenderedAfterRejectedSend ==
    /\ pc = "running"
    /\ lastOp = [ op |-> "update", arg |-> 1 ]
    /\ lastSend.result # ESP_OK
    /\ currentEffect = 3
    /\ display.name = "Fire Effect"
    /\ display.index = 4

\* C18: each press edge moves currentEffect to the previous catalog index,
\* wrapping from 0 to the last index.
C18_PressStepsBackwards ==
    [][ presses' = presses + 1
        => currentEffect' = (currentEffect + Len(EFFECT_NAMES) - 1) % Len(EFFECT_NAMES) ]_vars

====
